---- MODULE Spec2Model ----
(***************************************************************************)
(* Model of the filter-convolution core of modopt/signal/wavelet.py:       *)
(* filter_convolve (one image or coefficient stack against a filter bank)  *)
(* and filter_convolve_stack (the same over a leading-axis stack).         *)
(*                                                                         *)
(* An array is a record [ndim, v]: ndim is its rank, v its contents as     *)
(* nested sequences (a rank-0 array holds a number).  Values are integers: *)
(* every example of the source is integer valued and float arithmetic on   *)
(* them is exact.  An operation returns a record [err, val]; err = NoErr   *)
(* when it returned val, otherwise the exception it raised.                *)
(***************************************************************************)
EXTENDS Integers, Sequences, FiniteSets, TLC

\* ---------------------------------------------------------------- bounds
MaxN    == 3   \* images in a stack: 0..MaxN
MaxK    == 2   \* filters in a bank: 0..MaxK
MaxDim  == 2   \* image height and width: 1..MaxDim
MaxFDim == 3   \* filter height and width: 1..MaxFDim

\* The arrays of the docstring examples: 3x3 images, a bank of 4 filters.
DocDim == 3
DocK   == 4

NoErr             == "none"
InvalidInputError == "InvalidInputError"
ShapeMismatchError == "ShapeMismatchError"
Methods == {"astropy", "scipy"}

\* ---------------------------------------------------------------- arrays
RECURSIVE Prod(_)
Prod(s) == IF s = <<>> THEN 1 ELSE Head(s) * Prod(Tail(s))

RECURSIVE SeqSum(_)
SeqSum(s) == IF s = <<>> THEN 0 ELSE Head(s) + SeqSum(Tail(s))

\* Value at flat (row-major, 0-based) index n of an array filled by `fill`:
\* np.arange(size) + start, or zeros with a single 1 at flat index `at`.
FillAt(fill, n) ==
    IF fill.kind = "arange" THEN fill.start + n
    ELSE IF n = fill.at THEN 1 ELSE 0

\* Nested contents of an array of the given shape, row-major from flat index base.
RECURSIVE Nested(_, _, _)
Nested(shape, fill, base) ==
    IF shape = <<>> THEN FillAt(fill, base)
    ELSE [k \in 1..Head(shape) |->
             Nested(Tail(shape), fill, base + (k - 1) * Prod(Tail(shape)))]

MkArray(shape, fill) == [ndim |-> Len(shape), v |-> Nested(shape, fill, 0)]

Arange(shape, start) == MkArray(shape, [kind |-> "arange", start |-> start])
Impulse(shape) == MkArray(shape, [kind |-> "impulse", at |-> Prod(shape) \div 2])

\* `for x in a`: the sub-arrays along the leading axis, in index order.
Iter(a) == [k \in 1..Len(a.v) |-> [ndim |-> a.ndim - 1, v |-> a.v[k]]]

Rows(m) == Len(m)
Cols(m) == IF Len(m) = 0 THEN 0 ELSE Len(m[1])

\* np.array(list): stack equally shaped arrays along a new leading axis; the
\* empty list gives the empty rank-1 array.
np_array(list) ==
    IF list = <<>> THEN [ndim |-> 1, v |-> <<>>]
    ELSE [ndim |-> list[1].ndim + 1, v |-> [k \in 1..Len(list) |-> list[k].v]]

\* np.sum(list, axis=0): element-wise sum of equally shaped 2D arrays, in list
\* order; the empty list sums to the scalar 0.
np_sum_axis0(list) ==
    IF list = <<>> THEN [ndim |-> 0, v |-> 0]
    ELSE [ndim |-> list[1].ndim,
          v |-> [i \in 1..Rows(list[1].v) |-> [j \in 1..Cols(list[1].v) |->
                   SeqSum([k \in 1..Len(list) |-> list[k].v[i][j]])]]]

\* zip(a, b): pairs up to the shorter of the two.
Min(a, b) == IF a <= b THEN a ELSE b
zip(a, b) == [k \in 1..Min(Len(a), Len(b)) |-> <<a[k], b[k]>>]

\* ------------------------------------------------------------- convolve
\* Kernel entry, zero outside the kernel (zero padding).
KAt(f, i, j) == IF i \in 1..Rows(f) /\ j \in 1..Cols(f) THEN f[i][j] ELSE 0

\* Entry (n, m) of the full linear convolution of x and f.
FullAt(x, f, n, m) ==
    SeqSum([a \in 1..Rows(x) |->
        SeqSum([b \in 1..Cols(x) |-> x[a][b] * KAt(f, n - a + 1, m - b + 1)])])

\* Spatial-domain backend: each output pixel summed directly, zero boundary.
ConvDirect(x, f) ==
    [i \in 1..Rows(x) |-> [j \in 1..Cols(x) |->
        FullAt(x, f, i + (Rows(f) - 1) \div 2, j + (Cols(f) - 1) \div 2)]]

\* Frequency-domain backend: the full linear convolution, cropped to the centre.
ConvFull(x, f) ==
    [n \in 1..(Rows(x) + Rows(f) - 1) |-> [m \in 1..(Cols(x) + Cols(f) - 1) |->
        FullAt(x, f, n, m)]]
ConvCrop(x, f) ==
    LET full == ConvFull(x, f)
        r0 == (Rows(f) - 1) \div 2
        c0 == (Cols(f) - 1) \div 2
    IN [i \in 1..Rows(x) |-> [j \in 1..Cols(x) |-> full[i + r0][j + c0]]]

\* convolve(image, kernel) -> image: "same"-size, zero-padded, 2D only.
convolve(d, kernel, method) ==
    IF d.ndim # 2 \/ kernel.ndim # 2
    THEN [err |-> InvalidInputError, val |-> <<>>]
    ELSE [err |-> NoErr,
          val |-> [ndim |-> 2,
                   v |-> IF method = "scipy" THEN ConvDirect(d.v, kernel.v)
                                             ELSE ConvCrop(d.v, kernel.v)]]

\* 180-degree rotation of one filter, and of every filter of a bank in place.
rotate(f) ==
    [i \in 1..Rows(f) |-> [j \in 1..Cols(f) |-> f[Rows(f) + 1 - i][Cols(f) + 1 - j]]]
rotate_stack(flt) == [ndim |-> flt.ndim, v |-> [k \in 1..Len(flt.v) |-> rotate(flt.v[k])]]

\* ------------------------------------------------------ filter_convolve
\* [convolve(a, b, method) for a, b in pairs]: evaluated in order, the first
\* exception ends the comprehension.
RECURSIVE ConvList(_, _)
ConvList(pairs, method) ==
    IF pairs = <<>> THEN [err |-> NoErr, val |-> <<>>]
    ELSE LET h == convolve(pairs[1][1], pairs[1][2], method)
         IN IF h.err # NoErr THEN [err |-> h.err, val |-> <<>>]
            ELSE LET t == ConvList(Tail(pairs), method)
                 IN IF t.err # NoErr THEN t
                    ELSE [err |-> NoErr, val |-> <<h.val>> \o t.val]

\* Variants of filter_convolve with one slip each, used to test the properties.
\* Mode A walks the bank backwards.
filter_convolve_backwards(d, flt, rot, method) ==
    IF rot
    THEN LET l == ConvList(zip(Iter(d), Iter(rotate_stack(flt))), method)
         IN IF l.err # NoErr THEN [err |-> l.err, val |-> <<>>]
            ELSE [err |-> NoErr, val |-> np_sum_axis0(l.val)]
    ELSE LET K == Len(flt.v)
             l == ConvList([k \in 1..K |-> <<d, Iter(flt)[K + 1 - k]>>], method)
         IN IF l.err # NoErr THEN [err |-> l.err, val |-> <<>>]
            ELSE [err |-> NoErr, val |-> np_array(l.val)]

\* Mode B convolves with the filters as given, not rotated.
filter_convolve_unrotated(d, flt, rot, method) ==
    IF rot
    THEN LET l == ConvList(zip(Iter(d), Iter(flt)), method)
         IN IF l.err # NoErr THEN [err |-> l.err, val |-> <<>>]
            ELSE [err |-> NoErr, val |-> np_sum_axis0(l.val)]
    ELSE LET l == ConvList([k \in 1..Len(flt.v) |-> <<d, Iter(flt)[k]>>], method)
         IN IF l.err # NoErr THEN [err |-> l.err, val |-> <<>>]
            ELSE [err |-> NoErr, val |-> np_array(l.val)]

\* Mode B pairs coefficient map k with rotated filter K + 1 - k.
filter_convolve_crossed(d, flt, rot, method) ==
    IF rot
    THEN LET K == Len(flt.v)
             rf == Iter(rotate_stack(flt))
             l == ConvList(zip(Iter(d), [k \in 1..K |-> rf[K + 1 - k]]), method)
         IN IF l.err # NoErr THEN [err |-> l.err, val |-> <<>>]
            ELSE [err |-> NoErr, val |-> np_sum_axis0(l.val)]
    ELSE LET l == ConvList([k \in 1..Len(flt.v) |-> <<d, Iter(flt)[k]>>], method)
         IN IF l.err # NoErr THEN [err |-> l.err, val |-> <<>>]
            ELSE [err |-> NoErr, val |-> np_array(l.val)]

filter_convolve(d, flt, rot, method) ==
    IF rot
    THEN LET l == ConvList(zip(Iter(d), Iter(rotate_stack(flt))), method)
         IN IF l.err # NoErr THEN [err |-> l.err, val |-> <<>>]
            ELSE [err |-> NoErr, val |-> np_sum_axis0(l.val)]
    ELSE LET l == ConvList([k \in 1..Len(flt.v) |-> <<d, Iter(flt)[k]>>], method)
         IN IF l.err # NoErr THEN [err |-> l.err, val |-> <<>>]
            ELSE [err |-> NoErr, val |-> np_array(l.val)]

\* --------------------------------------------------------------- inputs
FillKinds == {"arange", "impulse"}
Ranks == {1, 2, 3, 4}

Filled(shape, kind) == IF kind = "arange" THEN Arange(shape, 0) ELSE Impulse(shape)

\* A bank of K filters of fh x fw.
Bank(K, fh, fw, kind) == Filled(<<K, fh, fw>>, kind)

\* Shape of one stack element of rank r: (w), (h, w), (kd, h, w), (1, kd, h, w).
ElemShape(r, kd, h, w) ==
    [j \in 1..r |-> IF j = r THEN w ELSE IF j = r - 1 THEN h
                    ELSE IF j = r - 2 THEN kd ELSE 1]

\* A stack of n elements of rank r cut from one filled array; when odd > 0 the
\* element at that index is replaced by one of another rank (the stack is then
\* a list of arrays, which the loop of filter_convolve_stack accepts as well).
Stack(n, r, kd, h, w, kind, odd) ==
    LET whole == Filled(<<n>> \o ElemShape(r, kd, h, w), kind)
        other == Arange(ElemShape(IF r = 2 THEN 3 ELSE 2, kd, h, w), 0)
    IN [i \in 1..n |-> IF i = odd THEN other ELSE Iter(whole)[i]]

\* Leading dimensions tried for a coefficient stack against a bank of K filters.
LeadDims(K) == {K - 1, K, K + 1} \cap Nat

\* The arrays of the docstring of filter_convolve.
DocX == Arange(<<DocDim, DocDim>>, 0)
DocY == Arange(<<DocK, DocDim, DocDim>>, 0)

\* ---------------------------------------------------------------- state
VARIABLES
    data,        \* argument of filter_convolve_stack: the sequence of elements
    filters,     \* argument: the filter bank
    filter_rot,  \* argument: FALSE = one output per filter, TRUE = rotate and sum
    method,      \* argument: the convolution backend
    pc,          \* "loop" | "done" | "raised"
    idx,         \* index of the next element of data
    out,         \* the list the comprehension has built so far
    calls,       \* history: every filter_convolve call made, [i, res], in order
    ret,         \* <<>> until the function returns, then <<value>>
    err          \* NoErr, or the exception that left the function

vars == <<data, filters, filter_rot, method, pc, idx, out, calls, ret, err>>

Start ==
    /\ pc = "loop"
    /\ idx = 1
    /\ out = <<>>
    /\ calls = <<>>
    /\ ret = <<>>
    /\ err = NoErr

\* The rank the mode asks of one element: an image, or a coefficient stack.
ModeRank(rot) == IF rot THEN 3 ELSE 2

\* One-element calls of every rank, shape, leading dimension and fill.
InitSingle ==
    \E K \in 0..MaxK, fh \in 1..MaxFDim, fw \in 1..MaxFDim, fk \in FillKinds :
        /\ filters = Bank(K, fh, fw, fk)
        /\ filter_rot \in BOOLEAN
        /\ \E r \in Ranks, kd \in LeadDims(K), h \in 1..MaxDim, w \in 1..MaxDim,
              dk \in FillKinds :
              data = Stack(1, r, kd, h, w, dk, 0)

\* Stacks of 0..MaxN elements of the rank the mode asks for, with at most one
\* element of another rank among them.
InitStack ==
    \E K \in 0..MaxK, fh \in 1..MaxFDim, fw \in 1..MaxFDim :
        /\ filters = Bank(K, fh, fw, "arange")
        /\ filter_rot \in BOOLEAN
        /\ \E n \in 0..MaxN, h \in 1..MaxDim, w \in 1..MaxDim :
              \E odd \in 0..n :
                  data = Stack(n, ModeRank(filter_rot), K, h, w, "arange", odd)

\* The two calls of the docstring of filter_convolve.
InitDoc ==
    /\ filters = DocY
    /\ \/ data = <<DocX>> /\ filter_rot = FALSE
       \/ data = <<DocY>> /\ filter_rot = TRUE

Init ==
    /\ (InitSingle \/ InitStack \/ InitDoc)
    /\ method \in Methods
    /\ Start

\* ------------------------------------------------- filter_convolve_stack
\* Variant of Convolve that puts each result at the front of the list.
Convolve_prepend ==
    /\ pc = "loop"
    /\ idx <= Len(data)
    /\ LET r == filter_convolve(data[idx], filters, filter_rot, method)
       IN /\ r.err = NoErr
          /\ out' = <<r.val>> \o out
          /\ calls' = Append(calls, [i |-> idx, res |-> r])
    /\ idx' = idx + 1
    /\ UNCHANGED <<data, filters, filter_rot, method, pc, ret, err>>

\* One iteration of the comprehension whose filter_convolve call returns.
Convolve ==
    /\ pc = "loop"
    /\ idx <= Len(data)
    /\ LET r == filter_convolve(data[idx], filters, filter_rot, method)
       IN /\ r.err = NoErr
          /\ out' = Append(out, r.val)
          /\ calls' = Append(calls, [i |-> idx, res |-> r])
    /\ idx' = idx + 1
    /\ UNCHANGED <<data, filters, filter_rot, method, pc, ret, err>>

\* Variant of Raise that swallows the exception and goes on with the next element.
Raise_swallow ==
    /\ pc = "loop"
    /\ idx <= Len(data)
    /\ LET r == filter_convolve(data[idx], filters, filter_rot, method)
       IN /\ r.err # NoErr
          /\ calls' = Append(calls, [i |-> idx, res |-> r])
    /\ idx' = idx + 1
    /\ UNCHANGED <<data, filters, filter_rot, method, pc, out, ret, err>>

\* One iteration whose filter_convolve call raises: the exception leaves
\* filter_convolve_stack, nothing is returned.
Raise ==
    /\ pc = "loop"
    /\ idx <= Len(data)
    /\ LET r == filter_convolve(data[idx], filters, filter_rot, method)
       IN /\ r.err # NoErr
          /\ err' = r.err
          /\ calls' = Append(calls, [i |-> idx, res |-> r])
    /\ pc' = "raised"
    /\ UNCHANGED <<data, filters, filter_rot, method, idx, out, ret>>

\* The comprehension is exhausted: return np.array of the list.
Return ==
    /\ pc = "loop"
    /\ idx > Len(data)
    /\ ret' = <<np_array(out)>>
    /\ pc' = "done"
    /\ UNCHANGED <<data, filters, filter_rot, method, idx, out, calls, err>>

Next == Convolve \/ Raise \/ Return

Spec == Init /\ [][Next]_vars

\* ============================================================ properties
\* Every filter_convolve call is the latest one in the state that follows it:
\* a property of the latest call in every reachable state is one of all calls.
NumFilters == Len(filters.v)
Arg(n) == data[calls[n].i]
Res(n) == calls[n].res
Latest == {Len(calls)} \ {0}
Height(x) == Rows(x.v)
Width(x) == Cols(x.v)

\* C1: Mode A (filter_rot = False): for a 2D image x of shape (H, W) and a bank
\* of K >= 1 filters, filter_convolve returns an array of shape (K, H, W) whose
\* slice k is convolve(x, F[k]) under the chosen backend, in filter order.
C1_ModeA_SlicePerFilter ==
    \A n \in Latest :
        (~filter_rot /\ Arg(n).ndim = 2 /\ NumFilters >= 1) =>
            /\ Res(n).err = NoErr
            /\ Res(n).val.ndim = 3
            /\ Len(Res(n).val.v) = NumFilters
            /\ \A k \in 1..NumFilters :
                  /\ Rows(Res(n).val.v[k]) = Height(Arg(n))
                  /\ Cols(Res(n).val.v[k]) = Width(Arg(n))
                  /\ Res(n).val.v[k] = convolve(Arg(n), Iter(filters)[k], method).val.v

\* A Mode A call on an image with two filters whose slices differ.
C1_Witness ==
    \E n \in 1..Len(calls) :
        /\ ~filter_rot /\ Arg(n).ndim = 2 /\ NumFilters = 2
        /\ Res(n).err = NoErr
        /\ Res(n).val.v[1] # Res(n).val.v[2]

\* C2: Mode B (filter_rot = True): for a coefficient stack c of shape (K, H, W)
\* and a bank of K >= 1 filters, filter_convolve returns one array of shape
\* (H, W), the element-wise sum over k of convolve(c[k], R(F[k])), R the
\* reversal of a filter along both axes, the index k unchanged.
C2_ModeB_RotatedSum ==
    \A n \in Latest :
        (filter_rot /\ Arg(n).ndim = 3 /\ NumFilters >= 1
                    /\ Len(Arg(n).v) = NumFilters) =>
            /\ Res(n).err = NoErr
            /\ Res(n).val.ndim = 2
            /\ Rows(Res(n).val.v) = Rows(Arg(n).v[1])
            /\ Cols(Res(n).val.v) = Cols(Arg(n).v[1])
            /\ \A i \in 1..Rows(Arg(n).v[1]), j \in 1..Cols(Arg(n).v[1]) :
                  Res(n).val.v[i][j] =
                      SeqSum([k \in 1..NumFilters |->
                          convolve(Iter(Arg(n))[k],
                                   [ndim |-> 2, v |-> rotate(filters.v[k])],
                                   method).val.v[i][j]])

\* A Mode B call with two filters that are not symmetric under the rotation.
C2_Witness ==
    \E n \in 1..Len(calls) :
        /\ filter_rot /\ Arg(n).ndim = 3 /\ NumFilters = 2
        /\ Len(Arg(n).v) = NumFilters
        /\ rotate(filters.v[1]) # filters.v[1]
        /\ Res(n).err = NoErr
        /\ \E i \in 1..Rows(Res(n).val.v), j \in 1..Cols(Res(n).val.v) :
              Res(n).val.v[i][j] # 0

\* What filter_convolve gives for element i of the stack.
Single(i) == filter_convolve(data[i], filters, filter_rot, method)
Fails(i) == Single(i).err # NoErr

\* C3: stack law: filter_convolve_stack returns an array whose leading
\* dimension is the length N of the stack and whose element i is
\* filter_convolve(stack[i], F, filter_rot, method), for both modes and both
\* methods: output order is input order.
C3_StackLaw ==
    pc = "done" =>
        /\ Len(ret) = 1
        /\ Len(ret[1].v) = Len(data)
        /\ \A i \in 1..Len(data) :
              /\ ~Fails(i)
              /\ ret[1].v[i] = Single(i).val.v
              /\ ret[1].ndim = Single(i).val.ndim + 1

\* A returned stack of at least two elements with different results.
C3_Witness ==
    /\ pc = "done"
    /\ Len(data) >= 2
    /\ NumFilters >= 1
    /\ ret[1].v[1] # ret[1].v[2]

\* C4: in Mode B, a coefficient stack whose leading dimension K' differs from
\* the number K of filters (K' < K or K' > K) makes filter_convolve fail with a
\* shape-mismatch error.  Stated for K >= 1: the empty bank is the case of C5.
C4_LeadingDimMismatchFails ==
    \A n \in Latest :
        (filter_rot /\ Arg(n).ndim = 3 /\ NumFilters >= 1
                    /\ Len(Arg(n).v) # NumFilters) =>
            Res(n).err = ShapeMismatchError

\* C5: an empty filter bank makes filter_convolve fail in both modes.
C5_EmptyBankFails ==
    \A n \in Latest : NumFilters = 0 => Res(n).err # NoErr

\* C6: filter_convolve fails with an invalid-input error when data is not 2D
\* in Mode A and when data is not 3D in Mode B.
C6_RankValidated ==
    \A n \in Latest :
        Arg(n).ndim # ModeRank(filter_rot) => Res(n).err = InvalidInputError

\* ------------------------------------------------------------ adjointness
Dot2(a, b) ==
    SeqSum([i \in 1..Rows(a) |-> SeqSum([j \in 1..Cols(a) |-> a[i][j] * b[i][j]])])
Dot3(a, b) == SeqSum([k \in 1..Len(a) |-> Dot2(a[k], b[k])])

\* Images of shape (h, w) to pair a coefficient stack with: the unit images
\* (a basis) and the arange image.
TestImages(h, w) ==
    {MkArray(<<h, w>>, [kind |-> "impulse", at |-> p]) : p \in 0..(h * w - 1)}
        \cup {Arange(<<h, w>>, 0)}

IsOdd(m) == m % 2 = 1

\* C7: Mode B is the adjoint of Mode A: for an image x of shape (H, W), a
\* coefficient stack c of shape (K, H, W) and a bank F of K filters of odd
\* height and width, <filter_convolve(x, F), c> = <x, filter_convolve(c, F,
\* filter_rot=True)>, the same backend in both calls.
C7_ModeBAdjointOfModeA ==
    \A n \in Latest :
        (/\ filter_rot /\ Arg(n).ndim = 3 /\ NumFilters >= 1
         /\ Len(Arg(n).v) = NumFilters
         /\ IsOdd(Rows(filters.v[1])) /\ IsOdd(Cols(filters.v[1]))) =>
            /\ Res(n).err = NoErr
            /\ \A x \in TestImages(Rows(Arg(n).v[1]), Cols(Arg(n).v[1])) :
                  Dot3(filter_convolve(x, filters, FALSE, method).val.v, Arg(n).v)
                      = Dot2(x.v, Res(n).val.v)

\* A Mode B call on two coefficient maps of more than one pixel per side with
\* 3x3 filters that the rotation changes.
C7_Witness ==
    \E n \in 1..Len(calls) :
        /\ filter_rot /\ Arg(n).ndim = 3 /\ NumFilters = 2
        /\ Len(Arg(n).v) = NumFilters
        /\ Rows(filters.v[1]) = 3 /\ Cols(filters.v[1]) = 3
        /\ rotate(filters.v[2]) # filters.v[2]
        /\ Rows(Arg(n).v[1]) >= 2 /\ Cols(Arg(n).v[1]) >= 2
        /\ Res(n).err = NoErr
        /\ Res(n).val.v[1][1] # Res(n).val.v[2][2]

\* ------------------------------------------------------ docstring examples
DocModeA ==
    [ndim |-> 3,
     v |-> << << <<174, 165, 174>>, <<93, 84, 93>>, <<174, 165, 174>> >>,
              << <<498, 489, 498>>, <<417, 408, 417>>, <<498, 489, 498>> >>,
              << <<822, 813, 822>>, <<741, 732, 741>>, <<822, 813, 822>> >>,
              << <<1146, 1137, 1146>>, <<1065, 1056, 1065>>, <<1146, 1137, 1146>> >> >>]

DocModeB ==
    [ndim |-> 2,
     v |-> << <<14550, 14586, 14550>>, <<14874, 14910, 14874>>,
              <<14550, 14586, 14550>> >>]

\* C8: with x = arange(9) as 3x3 and F = arange(36) as 4x3x3,
\* filter_convolve(x, F) with the spatial-domain backend ("same"-size,
\* zero-padded) returns the (4, 3, 3) array of the docstring.
C8_DocExampleModeA ==
    \A n \in Latest :
        (~filter_rot /\ Arg(n) = DocX /\ filters = DocY /\ method = "scipy") =>
            Res(n).err = NoErr /\ Res(n).val = DocModeA

\* C9: with F = arange(36) as 4x3x3 as data and as filters,
\* filter_convolve(F, F, filter_rot=True) returns the (3, 3) array of the
\* docstring.
C9_DocExampleModeB ==
    \A n \in Latest :
        (filter_rot /\ Arg(n) = DocY /\ filters = DocY) =>
            Res(n).err = NoErr /\ Res(n).val = DocModeB

\* ------------------------------------------------------ error propagation
\* C10: when filter_convolve fails for an element of the stack,
\* filter_convolve_stack fails with that error: elements are processed in
\* index order, none after the first failing one is convolved, and nothing is
\* returned.
C10_FirstFailureAborts ==
    \* calls are made in index order, each the call on that element
    /\ \A n \in 1..Len(calls) : calls[n].i = n
    /\ \A n \in Latest : Res(n) = Single(n)
    \* no call follows a failed one
    /\ \A n \in 1..(Len(calls) - 1) : Res(n).err = NoErr
    \* a failed call ends the function with its error and no return value
    /\ \A n \in Latest :
          Res(n).err # NoErr => pc = "raised" /\ err = Res(n).err /\ ret = <<>>
    /\ (pc = "raised" => \E n \in Latest : Res(n).err # NoErr)
    \* a value is returned only when every element was convolved
    /\ (ret # <<>> => pc = "done")
    /\ (pc = "done" => Len(calls) = Len(data))

\* The call on the second of three elements failed after the first returned.
C10_Witness ==
    /\ pc = "raised"
    /\ Len(data) = 3
    /\ Len(calls) = 2
    /\ Len(out) = 1
    /\ err = InvalidInputError

====
